---- MODULE Spec2Model ----
(***************************************************************************)
(* To-Do Reminder (MVP): the task collection of src/src/App.tsx, its       *)
(* persistence in localStorage, the mutators of the App component and the  *)
(* 30-second reminder scheduler with its notification gateway.             *)
(*                                                                         *)
(* Values.  A JavaScript object is a function from its own keys to values. *)
(* Text typed by the user (title, notes) is a sequence of one-character    *)
(* strings, so that trim() is computed.  An ISO timestamp is a string of   *)
(* IsoTable; Date.now() is a number of minutes.  The value `undefined` is  *)
(* UndefText for a text field and UndefIso for a timestamp field.  A task  *)
(* id is the serial number of the uid() call that first returned it.       *)
(***************************************************************************)
EXTENDS Integers, Sequences, FiniteSets, TLC

VARIABLES
    tasks,        \* App state `tasks` (useState): the working snapshot
    store,        \* localStorage slot STORAGE_KEY
    now,          \* the clock, Date.now(), in minutes
    capability,   \* 'Notification' in window
    permission,   \* Notification.permission
    nextId,       \* number of uid() calls made so far
    tick,         \* observation of the last run of a task handler or of the timer
                  \*   callback: was it a scheduler tick,
                  \*   for which ids notifyTask was called (calls), for which it
                  \*   returned true (sent), and which of the calls repeat a call
                  \*   that returned false in the tick run just before (again)
    wrote,        \* observation: that run led to a saveTasks call
    dispatched,   \* history: ids with a successful dispatch for their current due value
    everCompleted,\* history: ids marked completed since their due value last changed
    loaded,       \* value returned by the last loadTasks() call, or the list
                  \*   `visible` last computed (function-level specifications)
    pc            \* the last call made by a function-level specification, or the
                  \*   position of the session (idle, save effect pending)

vars == <<tasks, store, now, capability, permission, nextId, tick, wrote,
          dispatched, everCompleted, loaded, pc>>

-----------------------------------------------------------------------------
(* Bounds *)

MaxTasks == 1      \* uid() calls, hence tasks ever created
MaxTime  == 1      \* the clock runs 0 .. MaxTime
MaxLen   == 2      \* length of the task sequences handed to saveTasks and saveEdit

-----------------------------------------------------------------------------
(* Values *)

UndefText == <<"undefined">>
UndefIso  == "undefined"

\* new Date(ms).toISOString(), for the minutes 0 .. 5
IsoTable == << "1970-01-01T00:00:00.000Z", "1970-01-01T00:01:00.000Z",
               "1970-01-01T00:02:00.000Z", "1970-01-01T00:03:00.000Z",
               "1970-01-01T00:04:00.000Z", "1970-01-01T00:05:00.000Z" >>

\* the value of a datetime-local input, for the minutes 0 .. 5 (UTC zone)
LocalTable == << "1970-01-01T00:00", "1970-01-01T00:01", "1970-01-01T00:02",
                 "1970-01-01T00:03", "1970-01-01T00:04", "1970-01-01T00:05" >>

\* new Date(ms).toISOString()
ToISOString(ms) == IsoTable[ms + 1]

\* NaN, the time of an Invalid Date
NaN == -1

\* new Date(s).getTime() for an ISO string or a datetime-local value
GetTime(s) ==
    IF \E n \in 1 .. Len(IsoTable) : IsoTable[n] = s
    THEN (CHOOSE n \in 1 .. Len(IsoTable) : IsoTable[n] = s) - 1
    ELSE IF \E n \in 1 .. Len(LocalTable) : LocalTable[n] = s
    THEN (CHOOSE n \in 1 .. Len(LocalTable) : LocalTable[n] = s) - 1
    ELSE NaN

\* a <= b of JavaScript numbers: false when either is NaN
LessEq(a, b) == a # NaN /\ b # NaN /\ a <= b

\* String.prototype.trim on a sequence of characters
RECURSIVE TrimStart(_)
TrimStart(s) == IF s # <<>> /\ Head(s) = " " THEN TrimStart(Tail(s)) ELSE s

RECURSIVE TrimEnd(_)
TrimEnd(s) ==
    IF s # <<>> /\ s[Len(s)] = " " THEN TrimEnd(SubSeq(s, 1, Len(s) - 1)) ELSE s

Trim(s) == TrimEnd(TrimStart(s))

\* type Task
TaskKeys == {"id", "title", "notes", "due", "completed", "notified", "createdAt"}

\* the value `undefined`, as a value of field k
Undef(k) == IF k \in {"title", "notes"} THEN UndefText ELSE UndefIso

\* t[k] of JavaScript: undefined when t has no own key k
Get(t, k) == IF k \in DOMAIN t THEN t[k] ELSE Undef(k)

\* { ...t, ...u }
Merge(t, u) ==
    [k \in (DOMAIN t) \cup (DOMAIN u) |-> IF k \in DOMAIN u THEN u[k] ELSE t[k]]

\* t.due is truthy
HasDue(t) == "due" \in DOMAIN t /\ t.due # UndefIso /\ t.due # ""

\* t.completed, t.notified are truthy
IsCompleted(t) == "completed" \in DOMAIN t /\ t.completed = TRUE
IsNotified(t) == "notified" \in DOMAIN t /\ t.notified = TRUE

-----------------------------------------------------------------------------
(* Task Store: localStorage slot, JSON.stringify, JSON.parse *)

\* localStorage.getItem returns null / the empty string / text that is not JSON
Absent  == [absent |-> TRUE]
Empty   == [empty |-> TRUE]
Garbage == [garbage |-> TRUE]

\* a serializer that also leaves out a key whose value is false
StringifyObjectDroppingFalse(t) ==
    [k \in {j \in DOMAIN t :
                /\ ~(j \in {"title", "notes", "due", "createdAt"} /\ t[j] = Undef(j))
                /\ ~(j \in {"completed", "notified"} /\ t[j] = FALSE)}
        |-> t[k]]

\* JSON.stringify of one object: a key whose value is undefined is left out
StringifyObject(t) ==
    [k \in {j \in DOMAIN t : ~(j \in {"title", "notes", "due", "createdAt"} /\ t[j] = Undef(j))}
        |-> t[k]]

\* JSON.stringify(tasks): the text of an array of objects
Stringify(ts) ==
    [json |-> [arr |-> [i \in 1 .. Len(ts) |-> [obj |-> StringifyObject(ts[i])]]]]

\* saveTasks: the slot after localStorage.setItem(STORAGE_KEY, JSON.stringify(tasks))
SaveTasks(ts) == Stringify(ts)

\* { ...v } for a parsed JSON value v: the own enumerable keys of v
Spread(v) ==
    IF "obj" \in DOMAIN v THEN v.obj
    ELSE IF "str" \in DOMAIN v THEN [i \in 1 .. Len(v.str) |-> v.str[i]]
    ELSE <<>>

\* loadTasks
LoadTasks(raw) ==
    IF "absent" \in DOMAIN raw \/ "empty" \in DOMAIN raw THEN <<>>     \* if (!raw) return []
    ELSE IF "garbage" \in DOMAIN raw THEN <<>>                        \* JSON.parse throws
    ELSE IF "arr" \notin DOMAIN raw.json THEN <<>>                    \* parsed.map throws
    ELSE [i \in 1 .. Len(raw.json.arr) |-> Spread(raw.json.arr[i])]

-----------------------------------------------------------------------------
(* Notification Gateway *)

Permissions == {"default", "granted", "denied"}

\* ensureNotificationPermission reaches Notification.requestPermission() also
\* when permission is 'denied'
EnsureRequestsUnlessGranted == capability /\ permission # "granted"

\* ensureNotificationPermission reaches Notification.requestPermission()
EnsureRequests == capability /\ permission # "granted" /\ permission # "denied"

\* what requestPermission() does: it resolves to the user's answer ('default'
\* when the prompt is dismissed), which is the new permission, or it throws
RequestOutcomes == Permissions \cup {"throws"}

\* ensureNotificationPermission: the value returned, for the outcome of the
\* request if one is made
EnsureResult(outcome) ==
    IF ~capability THEN "denied"
    ELSE IF permission = "granted" THEN "granted"
    ELSE IF EnsureRequests THEN (IF outcome = "throws" THEN "denied" ELSE outcome)
    ELSE permission

\* Notification.permission after ensureNotificationPermission
EnsurePermission(outcome) ==
    IF EnsureRequests /\ outcome # "throws" THEN outcome ELSE permission

\* notifyTask reaches new Notification(...)
NotifyConstructs == capability /\ permission = "granted"

\* notifyTask without its test of Notification.permission
NotifyTaskIgnoringPermission(t, throws) ==
    IF ~capability THEN FALSE
    ELSE ~throws

\* notifyTask(task): the value returned, where `throws` says whether
\* new Notification(...) throws
NotifyTask(t, throws) ==
    IF ~capability THEN FALSE
    ELSE IF permission # "granted" THEN FALSE
    ELSE ~throws

-----------------------------------------------------------------------------
(* Task Model & Mutators: the updater functions handed to setTasks *)

Ids(ts) == {ts[i].id : i \in 1 .. Len(ts)}

\* form values offered to the handlers
TitleInputs == {<<>>, <<" ">>, <<" ", "a", " ">>}
NotesInputs == {<<" ">>}
DueInputs == {""} \cup {LocalTable[n + 1] : n \in 0 .. MaxTime}

\* uid(): `${Date.now()}_${random suffix}`.  The call returns a string that no
\* earlier call returned, or the string of an earlier call that read the same
\* clock value and drew the same suffix; of the earlier strings only those still
\* in the collection matter
Uid(prev) ==
    {nextId + 1} \cup
    {prev[i].id : i \in {j \in 1 .. Len(prev) : prev[j].createdAt = ToISOString(now)}}

\* an add that never rejects a title
NeverRejected(title) == FALSE

\* if (!title) return
Rejected(title) == title = <<>>

\* addTask: the item built from the trimmed form values and the id drawn
NewTask(id, title, notes, dueStr) ==
    [id |-> id,
     title |-> title,
     notes |-> IF notes = <<>> THEN UndefText ELSE notes,
     due |-> IF dueStr = "" THEN UndefIso ELSE ToISOString(GetTime(dueStr)),
     completed |-> FALSE,
     notified |-> FALSE,
     createdAt |-> ToISOString(now)]

\* prev => [...prev, item]
PrependAtEnd(item, prev) == prev \o <<item>>

\* prev => [item, ...prev]
Prepend(item, prev) == <<item>> \o prev

\* toggleComplete: prev.map(t => t.id === id ? { ...t, completed: !t.completed } : t)
ToggleComplete(prev, id) ==
    [i \in 1 .. Len(prev) |->
        IF prev[i].id = id
        THEN Merge(prev[i], [completed |-> ~IsCompleted(prev[i])])
        ELSE prev[i]]

RECURSIVE Filter(_, _)
Filter(prev, id) ==
    IF prev = <<>> THEN <<>>
    ELSE IF Head(prev).id # id THEN <<Head(prev)>> \o Filter(Tail(prev), id)
    ELSE Filter(Tail(prev), id)

\* removeTask: prev.filter(t => t.id !== id)
RemoveTask(prev, id) == Filter(prev, id)

\* saveEdit: prev.map(t => t.id === id ? { ...t, ...updates } : t)
SaveEdit(prev, id, updates) ==
    [i \in 1 .. Len(prev) |->
        IF prev[i].id = id THEN Merge(prev[i], updates) ELSE prev[i]]

\* the updates with the title as typed: title.trim() in place of
\* title.trim() || t.title
OnSaveUpdatesTitleAsTyped(t, title, notes, due) ==
    [title |-> Trim(title),
     notes |-> IF Trim(notes) # <<>> THEN Trim(notes) ELSE UndefText,
     due |-> IF due # NaN THEN ToISOString(due) ELSE UndefIso,
     notified |-> FALSE]

\* EditInline.onSave: the updates handed to saveEdit, from the form's state
\* (title and notes as typed, due a time in minutes or NaN for no date)
OnSaveUpdates(t, title, notes, due) ==
    [title |-> IF Trim(title) # <<>> THEN Trim(title) ELSE t.title,
     notes |-> IF Trim(notes) # <<>> THEN Trim(notes) ELSE UndefText,
     due |-> IF due # NaN THEN ToISOString(due) ELSE UndefIso,
     notified |-> FALSE]

-----------------------------------------------------------------------------
(* Reminder Scheduler: one run of the setInterval callback *)

\* the guard without its test of t.completed
EligibleIgnoringCompleted(t, at) ==
    /\ HasDue(t)
    /\ ~IsNotified(t)
    /\ LessEq(GetTime(t.due), at)

\* the guard, skipping a task whose due had passed before it was created
EligibleUnlessMissed(t, at) ==
    /\ HasDue(t)
    /\ ~IsCompleted(t)
    /\ ~IsNotified(t)
    /\ LessEq(GetTime(t.due), at)
    /\ LessEq(GetTime(t.createdAt), GetTime(t.due))

\* the guard of the map callback: notifyTask is called for t
Eligible(t, at) ==
    /\ HasDue(t)
    /\ ~IsCompleted(t)
    /\ ~IsNotified(t)
    /\ LessEq(GetTime(t.due), at)

\* the positions of prev for which notifyTask is called, giving up on a task
\* whose dispatch failed in the tick run just before
CalledOnce(prev, at) ==
    {j \in 1 .. Len(prev) :
        Eligible(prev[j], at) /\ prev[j].id \notin (tick.calls \ tick.sent)}

\* the positions of prev for which notifyTask is called
Called(prev, at) == {j \in 1 .. Len(prev) : Eligible(prev[j], at)}

\* the positions for which notifyTask returns true (sent), when
\* new Notification throws for the tasks with an id in `throwers`
Sent(prev, at, throwers) ==
    {j \in Called(prev, at) : NotifyTask(prev[j], prev[j].id \in throwers)}

\* a next that lists the tasks just notified first
TickNextSentFirst(prev, at, throwers) ==
    LET marked == [i \in 1 .. Len(prev) |->
                      IF i \in Sent(prev, at, throwers)
                      THEN Merge(prev[i], [notified |-> TRUE])
                      ELSE prev[i]]
        JustSent(t) == \E i \in Sent(prev, at, throwers) : marked[i] = t
        NotJustSent(t) == ~JustSent(t)
    IN  SelectSeq(marked, JustSent) \o SelectSeq(marked, NotJustSent)

\* next = prev.map(...)
TickNext(prev, at, throwers) ==
    [i \in 1 .. Len(prev) |->
        IF i \in Sent(prev, at, throwers)
        THEN Merge(prev[i], [notified |-> TRUE])
        ELSE prev[i]]

\* `return next` whether or not a flag changed
TickChangedAlways(prev, at, throwers) == TRUE

\* changed
TickChanged(prev, at, throwers) == Sent(prev, at, throwers) # {}

-----------------------------------------------------------------------------
(* The App component as a state machine.  A step is one event handler or   *)
(* timer callback together with the render and the save effect            *)
(* (useEffect(() => saveTasks(tasks), [tasks])) it causes.                *)

NoTick == [ran |-> FALSE, calls |-> {}, sent |-> {}, again |-> {}]

\* the state update without the save effect
CommitWithoutSave(next) ==
    /\ tasks' = next
    /\ store' = store
    /\ wrote' = FALSE

\* setTasks(next) with a new array: re-render, then the save effect
Commit(next) ==
    /\ tasks' = next
    /\ store' = SaveTasks(next)
    /\ wrote' = TRUE

\* no setTasks, or an updater that returned prev: no render, no effect
NoCommit ==
    /\ UNCHANGED <<tasks, store>>
    /\ wrote' = FALSE

\* slots a session may find at start-up, all loading as the empty collection
InitSlots == {Absent, Garbage, Stringify(<<>>)}

\* after the first render and its save effect
Init ==
    /\ \E raw \in InitSlots :
          /\ tasks = LoadTasks(raw)
          /\ store = SaveTasks(LoadTasks(raw))
    /\ now = 0
    /\ capability \in BOOLEAN
    /\ permission = "default"
    /\ nextId = 0
    /\ tick = NoTick
    /\ wrote = TRUE
    /\ dispatched = {}
    /\ everCompleted = {}
    /\ loaded = <<>>
    /\ pc = [op |-> "app"]

\* addTask on the form values, with the id that uid() returns
AddTaskWith(titleRaw, notesRaw, dueStr, id) ==
    IF Rejected(Trim(titleRaw))
    THEN NoCommit /\ UNCHANGED nextId
    ELSE /\ Commit(Prepend(NewTask(id, Trim(titleRaw), Trim(notesRaw), dueStr), tasks))
         /\ nextId' = nextId + 1

AddTask ==
    \E titleRaw \in TitleInputs, notesRaw \in NotesInputs, dueStr \in DueInputs,
       id \in Uid(tasks) :
        /\ nextId < MaxTasks
        /\ AddTaskWith(titleRaw, notesRaw, dueStr, id)
        /\ tick' = NoTick
        /\ UNCHANGED <<now, capability, permission, dispatched, everCompleted, loaded, pc>>

Toggle ==
    \E id \in Ids(tasks) :
        /\ Commit(ToggleComplete(tasks, id))
        /\ everCompleted' =
              IF \E i \in 1 .. Len(tasks) : tasks[i].id = id /\ ~IsCompleted(tasks[i])
              THEN everCompleted \cup {id} ELSE everCompleted
        /\ tick' = NoTick
        /\ UNCHANGED <<now, capability, permission, nextId, dispatched, loaded, pc>>

Remove ==
    \E id \in Ids(tasks) :
        /\ Commit(RemoveTask(tasks, id))
        /\ dispatched' = dispatched \ {id}
        /\ everCompleted' = everCompleted \ {id}
        /\ tick' = NoTick
        /\ UNCHANGED <<now, capability, permission, nextId, loaded, pc>>

\* the due state of EditInline: the task's own date, or one picked in the input
DueStates(t) ==
    {NaN} \cup {GetTime(s) : s \in DueInputs \ {""}}
          \cup (IF HasDue(t) THEN {GetTime(t.due)} ELSE {})

Edit ==
    \E i \in 1 .. Len(tasks) :
      \E title \in TitleInputs, notes \in NotesInputs, due \in DueStates(tasks[i]) :
        LET t == tasks[i]
            updates == OnSaveUpdates(t, title, notes, due)
            dueEdited == updates.due # Get(t, "due")
        IN  /\ Commit(SaveEdit(tasks, t.id, updates))
            /\ dispatched' = IF dueEdited THEN dispatched \ {t.id} ELSE dispatched
            /\ everCompleted' = IF dueEdited THEN everCompleted \ {t.id} ELSE everCompleted
            /\ tick' = NoTick
            /\ UNCHANGED <<now, capability, permission, nextId, loaded, pc>>

\* resetAll: confirm() answers ok or cancel
ResetAll ==
    \E ok \in BOOLEAN :
        /\ IF ok
           THEN Commit(<<>>) /\ dispatched' = {} /\ everCompleted' = {}
           ELSE NoCommit /\ UNCHANGED <<dispatched, everCompleted>>
        /\ tick' = NoTick
        /\ UNCHANGED <<now, capability, permission, nextId, loaded, pc>>

\* the timer callback's state update and what it is observed to do
TickRun(throwers) ==
    LET calls == {tasks[i].id : i \in Called(tasks, now)}
        sent == {tasks[i].id : i \in Sent(tasks, now, throwers)}
    IN  /\ IF TickChanged(tasks, now, throwers)
           THEN Commit(TickNext(tasks, now, throwers))
           ELSE NoCommit
        /\ tick' = [ran |-> TRUE, calls |-> calls, sent |-> sent,
                    again |-> calls \cap (tick.calls \ tick.sent)]
        /\ dispatched' = dispatched \cup sent

\* one run of the timer callback; new Notification throws for the ids in throwers
TickWith(throwers) ==
    /\ TickRun(throwers)
    /\ UNCHANGED <<now, capability, permission, nextId, everCompleted, loaded, pc>>

Tick == \E throwers \in SUBSET Ids(tasks) : TickWith(throwers)

\* requestNotif -> ensureNotificationPermission: the prompt is answered, dismissed
\* or fails
RequestNotif ==
    /\ capability
    /\ permission = "default"
    /\ permission' \in Permissions
    /\ UNCHANGED <<tasks, store, now, capability, nextId, tick, wrote, dispatched, everCompleted, loaded, pc>>

\* the clock
Advance ==
    /\ now < MaxTime
    /\ now' = now + 1
    /\ UNCHANGED <<tasks, store, capability, permission, nextId, tick, wrote, dispatched, everCompleted, loaded, pc>>

Next ==
    \/ AddTask
    \/ Toggle
    \/ Remove
    \/ Edit
    \/ ResetAll
    \/ Tick
    \/ RequestNotif
    \/ Advance

Spec == Init /\ [][Next]_vars

-----------------------------------------------------------------------------
(* The App with notifications working: the capability is present, permission *)
(* has been granted and new Notification does not throw.  setInterval keeps  *)
(* running the timer callback every 30 s, so a tick that would change the    *)
(* state is not postponed for ever.                                          *)

GrantedInit ==
    /\ \E raw \in InitSlots :
          /\ tasks = LoadTasks(raw)
          /\ store = SaveTasks(LoadTasks(raw))
    /\ now = 0
    /\ capability = TRUE
    /\ permission = "granted"
    /\ nextId = 0
    /\ tick = NoTick
    /\ wrote = TRUE
    /\ dispatched = {}
    /\ everCompleted = {}
    /\ loaded = <<>>
    /\ pc = [op |-> "app"]

\* a tick in which no new Notification throws
TickOk == TickWith({})

GrantedNext ==
    \/ AddTask
    \/ Toggle
    \/ Remove
    \/ Edit
    \/ ResetAll
    \/ TickOk
    \/ Advance

LiveSpec == GrantedInit /\ [][GrantedNext]_vars /\ WF_vars(TickOk)

-----------------------------------------------------------------------------
(* saveTasks, loadTasks and saveEdit as functions: they are applied to task   *)
(* sequences and arguments drawn from bounded sets, and to slots written by   *)
(* something other than saveTasks.                                            *)

\* field values of the Task objects drawn: notes and due both undefined or both
\* set, completed either way, notified either way when due is set (the App
\* holds no notified task without a due)
TaskShapes ==
    {[title |-> <<"a">>, notes |-> UndefText, due |-> UndefIso, completed |-> c,
      notified |-> FALSE, createdAt |-> ToISOString(0)] : c \in BOOLEAN}
    \cup
    {[title |-> <<"a">>, notes |-> <<"n">>, due |-> ToISOString(1), completed |-> c,
      notified |-> f, createdAt |-> ToISOString(0)] : c \in BOOLEAN, f \in BOOLEAN}

\* the sequences of at most MaxLen tasks of these shapes, with ids 1, 2, ...
TaskSeqs ==
    UNION {{[i \in 1 .. n |-> Merge(f[i], [id |-> i])] : f \in [1 .. n -> TaskShapes]} :
              n \in 0 .. MaxLen}

\* slots that hold no array of task records
ForeignSlots ==
    {Absent, Empty, Garbage,
     [json |-> [null |-> TRUE]],                                  \* null
     [json |-> [num |-> 42]],                                     \* 42
     [json |-> [str |-> <<"x">>]],                                \* "x"
     [json |-> [obj |-> [version |-> 2]]],                        \* {"version":2}
     [json |-> [arr |-> <<[num |-> 1]>>]],                        \* [1]
     [json |-> [arr |-> <<[null |-> TRUE], [str |-> <<"x">>]>>]], \* [null,"x"]
     [json |-> [arr |-> <<[obj |-> [version |-> 2]]>>]]}          \* [{"version":2}]

\* the updates handed to saveEdit: Partial<Task> objects that include a due
\* value, without or with a notified value
DueUpdates ==
    {[due |-> ToISOString(d)] : d \in 0 .. 1}
        \cup {[due |-> ToISOString(d), notified |-> f] : d \in 0 .. 1, f \in BOOLEAN}

FnInit ==
    /\ tasks \in TaskSeqs
    /\ store = Absent
    /\ loaded = <<>>
    /\ pc = [op |-> "start"]
    /\ now = 0
    /\ capability = FALSE
    /\ permission = "default"
    /\ nextId = 0
    /\ tick = NoTick
    /\ wrote = FALSE
    /\ dispatched = {}
    /\ everCompleted = {}

\* saveTasks(tasks)
SaveCall ==
    /\ pc.op = "start"
    /\ store' = SaveTasks(tasks)
    /\ pc' = [op |-> "save"]
    /\ wrote' = TRUE
    /\ UNCHANGED <<tasks, loaded, now, capability, permission, nextId, tick,
                   dispatched, everCompleted>>

\* the slot is removed or overwritten from outside the App
ForeignWrite ==
    \E raw \in ForeignSlots :
        /\ pc.op \in {"start", "save"}
        /\ store' = raw
        /\ pc' = [op |-> "foreign"]
        /\ UNCHANGED <<tasks, loaded, now, capability, permission, nextId, tick, wrote,
                       dispatched, everCompleted>>

\* loaded = loadTasks(); pc remembers what was done to the slot just before
LoadCall ==
    /\ pc.op \in {"save", "foreign"}
    /\ loaded' = LoadTasks(store)
    /\ pc' = [op |-> "load", after |-> pc.op]
    /\ UNCHANGED <<tasks, store, now, capability, permission, nextId, tick, wrote,
                   dispatched, everCompleted>>

\* tasks = saveEdit's updater applied to tasks
SaveEditCall ==
    \E id \in Ids(tasks), updates \in DueUpdates :
        /\ pc.op = "start"
        /\ tasks' = SaveEdit(tasks, id, updates)
        /\ pc' = [op |-> "saveEdit", id |-> id, updates |-> updates]
        /\ UNCHANGED <<store, loaded, now, capability, permission, nextId, tick, wrote,
                       dispatched, everCompleted>>

FnNext ==
    \/ SaveCall
    \/ ForeignWrite
    \/ LoadCall
    \/ SaveEditCall

FnSpec == FnInit /\ [][FnNext]_vars

-----------------------------------------------------------------------------
(* One handler of the App, run in a state in which the App holds a collection *)
(* of up to MaxLen tasks and has saved it.  pc records which handler ran and  *)
(* with which arguments.                                                      *)

OpInit ==
    /\ \E ts \in TaskSeqs :
          /\ tasks = ts
          /\ store = SaveTasks(ts)
          /\ nextId = Len(ts)
    /\ now \in 0 .. MaxTime
    /\ capability = TRUE
    /\ permission = "granted"
    /\ tick = NoTick
    /\ wrote = TRUE
    /\ dispatched = {}
    /\ everCompleted = {}
    /\ loaded = <<>>
    /\ pc = [op |-> "start"]

\* the add form is submitted
AddOp ==
    \E titleRaw \in TitleInputs, notesRaw \in NotesInputs, dueStr \in DueInputs,
       id \in Uid(tasks) :
        /\ pc.op = "start"
        /\ AddTaskWith(titleRaw, notesRaw, dueStr, id)
        /\ pc' = [op |-> "add", title |-> titleRaw]
        /\ tick' = NoTick
        /\ UNCHANGED <<now, capability, permission, dispatched, everCompleted, loaded>>

\* the checkbox of a row is clicked
ToggleOp ==
    \E id \in Ids(tasks) :
        /\ pc.op = "start"
        /\ Commit(ToggleComplete(tasks, id))
        /\ pc' = [op |-> "toggle", id |-> id]
        /\ tick' = NoTick
        /\ UNCHANGED <<now, capability, permission, nextId, dispatched, everCompleted, loaded>>

\* Delete of a row is clicked
RemoveOp ==
    \E id \in Ids(tasks) :
        /\ pc.op = "start"
        /\ Commit(RemoveTask(tasks, id))
        /\ pc' = [op |-> "remove", id |-> id]
        /\ tick' = NoTick
        /\ UNCHANGED <<now, capability, permission, nextId, dispatched, everCompleted, loaded>>

\* Save of the edit form of a row is clicked
EditOp ==
    \E i \in 1 .. Len(tasks) :
      \E title \in TitleInputs, notes \in NotesInputs, due \in DueStates(tasks[i]) :
        /\ pc.op = "start"
        /\ Commit(SaveEdit(tasks, tasks[i].id, OnSaveUpdates(tasks[i], title, notes, due)))
        /\ pc' = [op |-> "edit", id |-> tasks[i].id, title |-> title]
        /\ tick' = NoTick
        /\ UNCHANGED <<now, capability, permission, nextId, dispatched, everCompleted, loaded>>

\* the timer fires
TickOp ==
    \E throwers \in SUBSET Ids(tasks) :
        /\ pc.op = "start"
        /\ TickRun(throwers)
        /\ pc' = [op |-> "tick"]
        /\ UNCHANGED <<now, capability, permission, nextId, everCompleted, loaded>>

OpNext ==
    \/ AddOp
    \/ ToggleOp
    \/ RemoveOp
    \/ EditOp
    \/ TickOp

OpSpec == OpInit /\ [][OpNext]_vars

-----------------------------------------------------------------------------
(* Sessions.  The timer callback's state update and the save effect are two   *)
(* steps: notifyTask runs inside the updater handed to setTasks, and          *)
(* useEffect(() => saveTasks(tasks), [tasks]) runs after the render that the   *)
(* update causes.  The page can be closed or reloaded at any point; the next   *)
(* session starts from loadTasks().  pc is the position of the session: idle,  *)
(* or with the save effect of a render still to run.                           *)

SessionInit ==
    /\ \E ts \in TaskSeqs :
          /\ tasks = ts
          /\ store = SaveTasks(ts)
          /\ nextId = Len(ts)
    /\ now \in 0 .. MaxTime
    /\ capability = TRUE
    /\ permission = "granted"
    /\ tick = NoTick
    /\ wrote = TRUE
    /\ dispatched = {}
    /\ everCompleted = {}
    /\ loaded = <<>>
    /\ pc = [op |-> "idle"]

\* the timer callback: setTasks(prev => ...), with notifyTask called in the updater
TickUpdate ==
    \E throwers \in SUBSET Ids(tasks) :
        LET calls == {tasks[i].id : i \in Called(tasks, now)}
            sent == {tasks[i].id : i \in Sent(tasks, now, throwers)}
        IN  /\ pc.op = "idle"
            /\ IF TickChanged(tasks, now, throwers)
               THEN tasks' = TickNext(tasks, now, throwers) /\ pc' = [op |-> "effect"]
               ELSE UNCHANGED <<tasks, pc>>
            /\ tick' = [ran |-> TRUE, calls |-> calls, sent |-> sent,
                        again |-> calls \cap (tick.calls \ tick.sent)]
            /\ dispatched' = dispatched \cup sent
            /\ wrote' = FALSE
            /\ UNCHANGED <<store, now, capability, permission, nextId, everCompleted, loaded>>

\* the save effect of the render
SaveEffect ==
    /\ pc.op = "effect"
    /\ store' = SaveTasks(tasks)
    /\ wrote' = TRUE
    /\ pc' = [op |-> "idle"]
    /\ UNCHANGED <<tasks, now, capability, permission, nextId, tick, dispatched,
                   everCompleted, loaded>>

\* the page is closed and opened again: useState(loadTasks()), first render and
\* its save effect
Reload ==
    /\ tasks' = LoadTasks(store)
    /\ store' = SaveTasks(LoadTasks(store))
    /\ wrote' = TRUE
    /\ tick' = NoTick
    /\ pc' = [op |-> "idle"]
    /\ UNCHANGED <<now, capability, permission, nextId, dispatched, everCompleted, loaded>>

SessionNext ==
    \/ TickUpdate
    \/ SaveEffect
    \/ Reload

SessionSpec == SessionInit /\ [][SessionNext]_vars

-----------------------------------------------------------------------------
(* The View Projector: the list `visible` computed from tasks, tab, filter    *)
(* and query.                                                                  *)

\* minutes of a calendar day
MinutesPerDay == 1440

\* the local calendar date (year, month, day) of a time, as a day number
LocalDay(ms) == ms \div MinutesPerDay

\* isToday(t.due ? new Date(t.due) : undefined)
IsToday(t) == HasDue(t) /\ LocalDay(GetTime(t.due)) = LocalDay(now)

\* String.prototype.toLowerCase, for the letters used in titles and queries
LowerOf(c) == IF c = "A" THEN "a" ELSE IF c = "B" THEN "b" ELSE c
ToLowerCase(str) == [i \in 1 .. Len(str) |-> LowerOf(str[i])]

\* str.includes(q)
Includes(str, q) ==
    \E k \in 0 .. Len(str) : k + Len(q) <= Len(str) /\ SubSeq(str, k + 1, k + Len(q)) = q

\* a comparator that orders by due descending
CompareDescending(a, b) ==
    IF ~HasDue(a) /\ ~HasDue(b) THEN 0
    ELSE IF ~HasDue(a) THEN 1
    ELSE IF ~HasDue(b) THEN -1
    ELSE GetTime(b.due) - GetTime(a.due)

\* the comparator handed to sort
Compare(a, b) ==
    IF ~HasDue(a) /\ ~HasDue(b) THEN 0
    ELSE IF ~HasDue(a) THEN 1
    ELSE IF ~HasDue(b) THEN -1
    ELSE GetTime(a.due) - GetTime(b.due)

\* Array.prototype.sort is stable: an element goes after every element that
\* the comparator does not put behind it
RECURSIVE Insert(_, _)
Insert(x, sorted) ==
    IF sorted = <<>> THEN <<x>>
    ELSE IF Compare(Head(sorted), x) > 0 THEN <<x>> \o sorted
    ELSE <<Head(sorted)>> \o Insert(x, Tail(sorted))

\* [...list].sort(Compare)
RECURSIVE Sort(_)
Sort(list) ==
    IF list = <<>> THEN <<>>
    ELSE Insert(list[Len(list)], Sort(SubSeq(list, 1, Len(list) - 1)))

\* tasks.filter(t => isToday(...))
TodayList(ts) == SelectSeq(ts, IsToday)

\* visible
Visible(ts, tab, filter, query) ==
    LET KeepPending(t) == ~IsCompleted(t)
        KeepQuery(t) == Includes(ToLowerCase(t.title), ToLowerCase(query))
        byTab == IF tab = "today" THEN TodayList(ts) ELSE ts
        byFilter == IF filter = "pending" THEN SelectSeq(byTab, KeepPending)
                    ELSE IF filter = "completed" THEN SelectSeq(byTab, IsCompleted)
                    ELSE byTab
        byQuery == IF Trim(query) # <<>> THEN SelectSeq(byFilter, KeepQuery) ELSE byFilter
    IN  Sort(byQuery)

Tabs == {"today", "all"}
Filters == {"pending", "completed", "all"}
Queries == {<<>>, <<" ">>, <<"b">>}

\* field values of the Task objects projected: without a due or with one of two
\* dues, completed or not, titled a or B
ViewShapes ==
    {[title |-> ti, notes |-> UndefText, due |-> d, completed |-> c,
      notified |-> FALSE, createdAt |-> ToISOString(0)] :
        ti \in {<<"a">>, <<"B">>}, d \in {UndefIso, ToISOString(0), ToISOString(1)},
        c \in BOOLEAN}

\* the sequences of at most MaxLen tasks of these shapes, with ids 1, 2, ...
ViewSeqs ==
    UNION {{[i \in 1 .. n |-> Merge(f[i], [id |-> i])] : f \in [1 .. n -> ViewShapes]} :
              n \in 0 .. MaxLen}

\* the component is rendered on the day of the dues or on the day after
ViewInit ==
    /\ tasks \in ViewSeqs
    /\ now \in {0, MinutesPerDay}
    /\ store = Absent
    /\ loaded = <<>>
    /\ pc = [op |-> "start"]
    /\ capability = FALSE
    /\ permission = "default"
    /\ nextId = 0
    /\ tick = NoTick
    /\ wrote = FALSE
    /\ dispatched = {}
    /\ everCompleted = {}

\* loaded = visible, for one choice of tab, filter and query
ViewCall ==
    \E tab \in Tabs, filter \in Filters, query \in Queries :
        /\ pc.op = "start"
        /\ loaded' = Visible(tasks, tab, filter, query)
        /\ pc' = [op |-> "view", tab |-> tab, filter |-> filter, query |-> query]
        /\ UNCHANGED <<tasks, store, now, capability, permission, nextId, tick, wrote,
                       dispatched, everCompleted>>

ViewNext == ViewCall

ViewSpec == ViewInit /\ [][ViewNext]_vars

-----------------------------------------------------------------------------
(* The Notification Gateway: calls of ensureNotificationPermission and of     *)
(* notifyTask, in any order, for each capability and permission state.  pc    *)
(* records the last call: whether it reached the platform (requested,         *)
(* constructed) and the value it returned (result).                           *)

GatewayInit ==
    /\ tasks \in TaskSeqs
    /\ capability \in BOOLEAN
    /\ permission \in (IF capability THEN Permissions ELSE {"default"})
    /\ store = Absent
    /\ loaded = <<>>
    /\ pc = [op |-> "start"]
    /\ now = 0
    /\ nextId = 0
    /\ tick = NoTick
    /\ wrote = FALSE
    /\ dispatched = {}
    /\ everCompleted = {}

\* ensureNotificationPermission()
EnsureCall ==
    \E outcome \in RequestOutcomes :
        /\ permission' = EnsurePermission(outcome)
        /\ pc' = [op |-> "ensure", requested |-> EnsureRequests,
                  result |-> EnsureResult(outcome)]
        /\ UNCHANGED <<tasks, store, now, capability, nextId, tick, wrote, dispatched,
                       everCompleted, loaded>>

\* notifyTask(tasks[i])
NotifyCall ==
    \E i \in 1 .. Len(tasks), throws \in BOOLEAN :
        /\ pc' = [op |-> "notify", id |-> tasks[i].id, throws |-> throws,
                  constructed |-> NotifyConstructs,
                  result |-> NotifyTask(tasks[i], throws)]
        /\ UNCHANGED <<tasks, store, now, capability, permission, nextId, tick, wrote,
                       dispatched, everCompleted, loaded>>

GatewayNext ==
    \/ EnsureCall
    \/ NotifyCall

GatewaySpec == GatewayInit /\ [][GatewayNext]_vars

-----------------------------------------------------------------------------
(* Properties of the App state machine (Spec) *)

\* a step of the scheduler: the only steps that leave the observation of a tick
\* and change neither the clock nor the permission
TickStep == tick'.ran /\ now' = now /\ permission' = permission

\* the task at position i is due, incomplete and not notified at time `at`,
\* read off its fields
Pending(t, at) ==
    /\ "due" \in DOMAIN t /\ t.due # UndefIso
    /\ t.completed = FALSE
    /\ t.notified = FALSE
    /\ GetTime(t.due) >= 0 /\ GetTime(t.due) <= at

\* C1: a tick changes a task's notified flag from false to true only if, at that
\* tick, the task has a due, is not completed, and its due is at or before the
\* tick's captured now.
C1_TickNotifiesOnlyDueIncomplete ==
    [][TickStep =>
        \A i \in 1 .. Len(tasks) :
            (i <= Len(tasks') /\ tasks[i].notified = FALSE /\ tasks'[i].notified = TRUE)
            => /\ "due" \in DOMAIN tasks[i] /\ tasks[i].due # UndefIso
               /\ tasks[i].completed = FALSE
               /\ GetTime(tasks[i].due) <= now]_vars

\* C1 witness: a tick has just set the notified flag of a task
C1_Witness ==
    /\ tick.ran
    /\ \E i \in 1 .. Len(tasks) : tasks[i].id \in tick.sent /\ tasks[i].notified = TRUE

\* C2 (as claimed): a tick never dispatches successfully for a task that already
\* had a successful dispatch for its current due value, that is, with no edit
\* changing its due in between.
C2_AtMostOneDispatchPerDue ==
    [][TickStep => tick'.sent \cap dispatched = {}]_vars

\* C4: every tick calls notifyTask for every task that is pending at that tick,
\* whatever happened in earlier ticks, and a task whose dispatch reports failure
\* keeps notified = false and is still pending after the tick.
C4_FailedDispatchIsRetried ==
    [][TickStep =>
        \A i \in 1 .. Len(tasks) :
            Pending(tasks[i], now)
            => /\ tasks[i].id \in tick'.calls
               /\ tasks[i].id \notin tick'.sent
                  => /\ i <= Len(tasks')
                     /\ tasks'[i].notified = FALSE
                     /\ Pending(tasks'[i], now')]_vars

\* C4 witness: dispatch has been attempted again for a task whose dispatch failed
\* in the tick before, has failed again, and the task still is not notified
C4_Witness ==
    /\ tick.ran
    /\ \E i \in 1 .. Len(tasks) :
          /\ tasks[i].id \in tick.again
          /\ tasks[i].id \notin tick.sent
          /\ tasks[i].notified = FALSE

\* C6 (as claimed): a task that is completed, or has been marked completed with no
\* edit of its due since, is not pending: no tick would dispatch for it.
C6_CompletedNeverNotifiableAgain ==
    \A i \in 1 .. Len(tasks) :
        (tasks[i].completed = TRUE \/ tasks[i].id \in everCompleted)
        => ~Pending(tasks[i], now)

\* C7: a tick that changes no task's notified flag leaves the working snapshot
\* as it is and leads to no store write; so does a tick that runs right after a
\* tick and dispatches nothing.
C7_IdleTickWritesNothing ==
    [][TickStep =>
        /\ (/\ Len(tasks') = Len(tasks)
            /\ \A i \in 1 .. Len(tasks) : tasks'[i].notified = tasks[i].notified)
           => (tasks' = tasks /\ store' = store /\ wrote' = FALSE)
        /\ (tick.ran /\ tick'.sent = {})
           => (tasks' = tasks /\ store' = store /\ wrote' = FALSE)]_vars

\* C7 witness: a tick attempted a dispatch, every dispatch failed, nothing was written
C7_Witness ==
    /\ tick.ran
    /\ tick.calls # {}
    /\ tick.sent = {}
    /\ wrote = FALSE
    /\ tasks # <<>>

\* the tasks a and b have the same value in every field of Task (a key that is
\* missing reads as undefined)
SameTask(a, b) ==
    \A k \in TaskKeys :
        IF k \in DOMAIN a /\ k \in DOMAIN b THEN a[k] = b[k]
        ELSE IF k \in DOMAIN a THEN k \in {"notes", "due"} /\ a[k] = Undef(k)
        ELSE IF k \in DOMAIN b THEN k \in {"notes", "due"} /\ b[k] = Undef(k)
        ELSE TRUE

\* the sequences hold the same tasks in the same order
SameTasks(xs, ys) ==
    /\ Len(xs) = Len(ys)
    /\ \A i \in 1 .. Len(xs) : SameTask(xs[i], ys[i])

\* C9: after every step the collection read back from the store equals the working
\* snapshot; after a confirmed clearAll both are empty.
C9_StoreFollowsSnapshot ==
    /\ SameTasks(LoadTasks(store), tasks)
    /\ tasks = <<>> => LoadTasks(store) = <<>>

\* C9 witness: a collection that held a task has been emptied and saved
C9_Witness ==
    /\ nextId > 0
    /\ tasks = <<>>
    /\ wrote
    /\ store = Stringify(<<>>)

-----------------------------------------------------------------------------
(* Properties of the App with notifications working (LiveSpec) *)

\* the task with this id is in the collection and pending
PendingId(id) ==
    \E i \in 1 .. Len(tasks) : tasks[i].id = id /\ Pending(tasks[i], now)

\* the task with this id is notified, or has left the collection, been completed
\* or been edited so that it is no longer due
SettledId(id) ==
    \A i \in 1 .. Len(tasks) :
        tasks[i].id = id
        => \/ tasks[i].notified = TRUE
           \/ tasks[i].completed = TRUE
           \/ "due" \notin DOMAIN tasks[i]
           \/ tasks[i].due = UndefIso
           \/ GetTime(tasks[i].due) > now

\* C3: with ticks running, permission granted and the raise succeeding, every task
\* that is due and incomplete is eventually marked notified, unless it is removed,
\* completed or edited away from being due first; this includes a task whose due
\* was already in the past when it was created.
C3_DueTaskEventuallyNotified ==
    \A id \in 1 .. MaxTasks : PendingId(id) ~> SettledId(id)

\* C3 witness: a task created after its due has been dispatched for and is notified
C3_Witness ==
    \E i \in 1 .. Len(tasks) :
        /\ GetTime(tasks[i].createdAt) > GetTime(tasks[i].due)
        /\ tasks[i].due # UndefIso
        /\ tasks[i].completed = FALSE
        /\ tasks[i].notified = TRUE
        /\ tasks[i].id \in tick.sent

-----------------------------------------------------------------------------
(* Properties of the functions (FnSpec) *)

C8_LoadAfterSaveRoundTrip ==
    (pc.op = "load" /\ pc.after = "save") => SameTasks(loaded, tasks)

\* C8 witness: two tasks, one of them with notes and due undefined, have been
\* saved and loaded
C8_Witness ==
    /\ pc.op = "load" /\ pc.after = "save"
    /\ Len(tasks) = 2 /\ Len(loaded) = 2
    /\ tasks[1].notes = UndefText /\ tasks[1].due = UndefIso
    /\ tasks[2].notes # UndefText /\ tasks[2].due # UndefIso

\* C10 (as claimed): loadTasks() on a slot that is absent, is not JSON, or holds
\* JSON that is no array of task records returns the empty sequence.
C10_LoadOfForeignSlotIsEmpty ==
    (pc.op = "load" /\ pc.after = "foreign") => loaded = <<>>

-----------------------------------------------------------------------------
(* Properties of single handler runs (OpSpec) *)

\* the step is a run of the handler `op`
OpStep(op) == pc.op = "start" /\ pc'.op = op

\* C11: add with a title that is empty or only whitespace leaves the working
\* snapshot (count, order, every field) and the persisted store as they were, and
\* causes no store write.
C11_BlankAddChangesNothing ==
    [][(OpStep("add") /\ Trim(pc'.title) = <<>>)
       => (tasks' = tasks /\ store' = store /\ wrote' = FALSE /\ nextId' = nextId)]_vars

\* C11 witness: a whitespace-only title was submitted over a non-empty collection
C11_Witness ==
    /\ pc.op = "add"
    /\ pc.title # <<>> /\ Trim(pc.title) = <<>>
    /\ tasks # <<>>
    /\ wrote = FALSE

\* C12: add with a non-blank title yields a snapshot whose first element is a new
\* task with completed = false, notified = false and the trimmed title, followed
\* by the tasks of the previous snapshot, unchanged and in their order; the
\* length grows by exactly one.
C12_AddPrependsNewTask ==
    [][(OpStep("add") /\ Trim(pc'.title) # <<>>)
       => /\ Len(tasks') = Len(tasks) + 1
          /\ tasks'[1].completed = FALSE
          /\ tasks'[1].notified = FALSE
          /\ tasks'[1].title = Trim(pc'.title)
          /\ tasks'[1].title # pc'.title
          /\ \A i \in 1 .. Len(tasks) : tasks'[i + 1] = tasks[i]]_vars

\* C12 witness: a task was added in front of two tasks that differ
C12_Witness ==
    /\ pc.op = "add"
    /\ Len(tasks) > 2
    /\ tasks[2] # tasks[3]
    /\ tasks[1].title = <<"a">>
    /\ tasks[1].completed = FALSE /\ tasks[1].notified = FALSE

\* C13 (as claimed): no two tasks of the collection have the same id, whatever
\* handler has run.
C13_IdsAreUnique ==
    \A i, j \in 1 .. Len(tasks) : tasks[i].id = tasks[j].id => i = j

\* C14: starting from a collection of tasks with non-empty titles, every task
\* has a non-empty title after any handler: neither add nor edit, also with a
\* blank title submitted, stores an empty title.
C14_TitlesNeverEmpty ==
    \A i \in 1 .. Len(tasks) :
        /\ "title" \in DOMAIN tasks[i]
        /\ tasks[i].title # <<>>
        /\ tasks[i].title # UndefText
        /\ Trim(tasks[i].title) # <<>>

\* C14 witness: the edit form was saved with a whitespace-only title and the task
\* kept its title
C14_Witness ==
    /\ pc.op = "edit"
    /\ pc.title # <<>> /\ Trim(pc.title) = <<>>
    /\ \E i \in 1 .. Len(tasks) : tasks[i].id = pc.id /\ tasks[i].title = <<"a">>

\* C18 (as claimed): an edit that leaves the task's due value as it was leaves
\* the task's notified flag as it was.
C18_EditKeepingDueKeepsNotified ==
    [][OpStep("edit") =>
        \A i \in 1 .. Len(tasks) :
            (tasks[i].id = pc'.id /\ tasks'[i].due = tasks[i].due)
            => tasks'[i].notified = tasks[i].notified]_vars

\* C19: a tick changes nothing but notified flags: the collection keeps its
\* length and order, every task keeps id, title, notes, due, completed and
\* createdAt, and no notified flag goes from true to false.
C19_TickChangesOnlyNotified ==
    [][OpStep("tick") =>
        /\ Len(tasks') = Len(tasks)
        /\ \A i \in 1 .. Len(tasks) :
              /\ DOMAIN tasks'[i] = DOMAIN tasks[i]
              /\ \A k \in DOMAIN tasks[i] \ {"notified"} : tasks'[i][k] = tasks[i][k]
              /\ tasks[i].notified = TRUE => tasks'[i].notified = TRUE]_vars

\* C19 witness: a tick has notified the second of two tasks, and the first, which
\* it did not dispatch for, is still notified
C19_Witness ==
    /\ pc.op = "tick"
    /\ Len(tasks) = 2
    /\ tasks[2].id \in tick.sent /\ tasks[2].notified = TRUE
    /\ tasks[1].id \notin tick.calls /\ tasks[1].notified = TRUE

-----------------------------------------------------------------------------
(* Properties of the Notification Gateway (GatewaySpec) *)

\* C15: ensurePermission requests consent only when the capability is present and
\* permission is undecided (default); when permission is granted or denied it
\* returns that state without a request and leaves it as it is, so once
\* permission is denied no call requests again.
C15_EnsureRequestsOnlyWhenUndecided ==
    [][pc'.op = "ensure" =>
        /\ pc'.requested <=> (capability /\ permission = "default")
        /\ (capability /\ permission \in {"granted", "denied"})
           => (~pc'.requested /\ pc'.result = permission /\ permission' = permission)
        /\ permission = "denied" => (~pc'.requested /\ permission' = "denied")
        /\ ~capability => (~pc'.requested /\ pc'.result = "denied")
        /\ pc'.requested => pc'.result \in Permissions]_vars

\* C15 witness: permission is denied and a call has returned 'denied' without a
\* request
C15_Witness ==
    /\ pc.op = "ensure"
    /\ capability /\ permission = "denied"
    /\ ~pc.requested
    /\ pc.result = "denied"

\* C16: dispatch reports success only when the capability is present, permission
\* is granted and the raise did not throw, and failure in every other case; it
\* does not reach the platform when the capability is absent or permission is not
\* granted; it always returns a value and changes nothing.
C16_DispatchSucceedsOnlyWhenGranted ==
    [][pc'.op = "notify" =>
        /\ pc'.result \in BOOLEAN
        /\ pc'.result <=> (capability /\ permission = "granted" /\ ~pc'.throws)
        /\ pc'.constructed => (capability /\ permission = "granted")
        /\ (~capability \/ permission # "granted") => (~pc'.constructed /\ ~pc'.result)
        /\ UNCHANGED <<tasks, store, permission>>]_vars

\* C16 witness: with permission granted the raise threw and failure was reported
C16_Witness ==
    /\ pc.op = "notify"
    /\ capability /\ permission = "granted"
    /\ pc.constructed /\ pc.throws
    /\ pc.result = FALSE

-----------------------------------------------------------------------------
(* Properties of the View Projector (ViewSpec) *)

\* C17: for every collection and every tab, filter and query, the projected list
\* is ordered ascending by due, every task without due comes after every task
\* with due, tasks with equal sort keys keep their relative order from the
\* collection, and no task without due is listed under the today tab.
C17_ProjectionSortedStableUndueLast ==
    pc.op = "view" =>
        /\ \A i, j \in 1 .. Len(loaded) :
              i < j =>
                /\ (HasDue(loaded[i]) /\ HasDue(loaded[j]))
                   => GetTime(loaded[i].due) <= GetTime(loaded[j].due)
                /\ ~HasDue(loaded[i]) => ~HasDue(loaded[j])
                /\ (Get(loaded[i], "due") = Get(loaded[j], "due"))
                   => loaded[i].id < loaded[j].id
        /\ pc.tab = "today" => \A i \in 1 .. Len(loaded) : HasDue(loaded[i])
        /\ \A i \in 1 .. Len(loaded) :
              loaded[i].id \in 1 .. Len(tasks) /\ tasks[loaded[i].id] = loaded[i]

\* C17 witness: a task without due that came first in the collection is listed
\* after a task with due
C17_Witness ==
    /\ pc.op = "view"
    /\ Len(loaded) > 1
    /\ loaded[1].id = 2 /\ HasDue(loaded[1])
    /\ loaded[2].id = 1 /\ ~HasDue(loaded[2])

-----------------------------------------------------------------------------
(* Properties of sessions (SessionSpec) *)

\* C20 (as claimed): wherever the session is torn down and the collection
\* reloaded from the store, every task for which a dispatch has succeeded is
\* recorded as notified = true in the collection, so that no later tick
\* dispatches for it again.
C20_DispatchedIsNotifiedAfterReload ==
    \A i \in 1 .. Len(tasks) :
        tasks[i].id \in dispatched
        => (tasks[i].notified = TRUE /\ ~Eligible(tasks[i], now))

====
